---- MODULE Spec2Model ----
(***************************************************************************)
(* A model of `ring`, a ping clone: the checksum (util.rs), the wire       *)
(* structures (packet.rs), the Pinger session (ping.rs) and the driver     *)
(* loop (main.rs).                                                         *)
(*                                                                         *)
(* Bytes are naturals 0..255, a byte buffer is a sequence of bytes, and a  *)
(* Rust slice is a record [base, off, len]: the bytes base[off+1 ..] of    *)
(* which len are in the slice.  A receive buffer is the datagram written   *)
(* at the start of a zero-filled array of BufLen bytes, so reading a byte  *)
(* of the buffer past the datagram gives 0.                                *)
(***************************************************************************)
EXTENDS Integers, Sequences, FiniteSets, TLC

\* ------------------------------------------------------------------------
\* Program constants

ECHO_REQUEST_V4 == 8
ECHO_REQUEST_V6 == 128
ECHO_REPLY_V4 == 0
ECHO_REPLY_V6 == 129
TIMEOUT_V4 == 11
TIMEOUT_V6 == 3

\* The number of values of a u16 (Pinger.session, Pinger.sequence, the wire words).
U16 == 65536

\* let mut buf = [0; 4096]
BufLen == 4096

\* The serialized sizes of packet::IPv4Header and packet::ICMPEchoPacket.
IPv4HeaderSize == 20
ICMPEchoPacketSize == 8

\* ------------------------------------------------------------------------
\* Bounds of the model

\* The driver makes at most MaxPings calls of Pinger::ping.
MaxPings == 2
\* The -W timeout, in clock ticks.
TimeoutTicks == 2
\* The clock is followed up to MaxLate ticks past a call's deadline.
MaxLate == 1
\* The number of SIGINT deliveries followed.
MaxSignals == 1
\* The harness of consecutive ping calls makes at most SeqCalls calls.
SeqCalls == 65538
\* The checksum harness takes buffers of up to MaxBufLen bytes.
MaxBufLen == 6

\* The byte values the checksum harness fills its buffers with.
ByteVals == {0, 1, 255}
\* The session identifiers random::<u16>() is drawn from.
SessionIds == {4660, 7}

\* ------------------------------------------------------------------------
\* Bytes, words and slices

Min(a, b) == IF a < b THEN a ELSE b

HiByte(w) == (w \div 256) % 256
LoByte(w) == w % 256
BE16(b0, b1) == 256 * b0 + b1

\* &v[..] of a Vec or array holding exactly the bytes v.
SliceOf(v) == [base |-> v, off |-> 0, len |-> Len(v)]
\* &buf[..] of the BufLen-byte zero-filled array that recv_from wrote the
\* datagram d into (a datagram longer than the array is cut).
RecvBuf(d) == [base |-> SubSeq(d, 1, Min(Len(d), BufLen)), off |-> 0, len |-> BufLen]
\* &s[k..]
SliceFrom(s, k) == [base |-> s.base, off |-> s.off + k, len |-> s.len - k]
\* s[i], for 0 <= i < s.len
ByteAt(s, i) == IF s.off + i < Len(s.base) THEN s.base[s.off + i + 1] ELSE 0

\* ------------------------------------------------------------------------
\* packet.rs with bincode's big-endian, fixed-width configuration

\* A serializer that writes the 16-bit fields low byte first.
SerializeICMP_LittleEndian(p) ==
    << p.message_type, p.message_code,
       LoByte(p.checksum), HiByte(p.checksum),
       LoByte(p.identifier), HiByte(p.identifier),
       LoByte(p.sequence_num), HiByte(p.sequence_num) >>

\* coder.serialize(&ICMPEchoPacket)
SerializeICMP(p) ==
    << p.message_type, p.message_code,
       HiByte(p.checksum), LoByte(p.checksum),
       HiByte(p.identifier), LoByte(p.identifier),
       HiByte(p.sequence_num), LoByte(p.sequence_num) >>

\* coder.deserialize::<ICMPEchoPacket>(s): Err when the slice is too short.
DeserializeICMP(s) ==
    IF s.len < ICMPEchoPacketSize
    THEN [ok |-> FALSE]
    ELSE [ok |-> TRUE,
          message_type |-> ByteAt(s, 0),
          message_code |-> ByteAt(s, 1),
          checksum |-> BE16(ByteAt(s, 2), ByteAt(s, 3)),
          identifier |-> BE16(ByteAt(s, 4), ByteAt(s, 5)),
          sequence_num |-> BE16(ByteAt(s, 6), ByteAt(s, 7))]

\* coder.deserialize::<IPv4Header>(s): Err when the slice is too short.
DeserializeIPv4(s) ==
    IF s.len < IPv4HeaderSize
    THEN [ok |-> FALSE]
    ELSE [ok |-> TRUE,
          version_and_header_len |-> ByteAt(s, 0),
          type_of_service |-> ByteAt(s, 1),
          datagram_length |-> BE16(ByteAt(s, 2), ByteAt(s, 3)),
          ip_identifier |-> BE16(ByteAt(s, 4), ByteAt(s, 5)),
          flags_and_5frag_offset |-> ByteAt(s, 6),
          rest_of_frag_offset |-> ByteAt(s, 7),
          ttl |-> ByteAt(s, 8),
          protocol |-> ByteAt(s, 9),
          checksum |-> BE16(ByteAt(s, 10), ByteAt(s, 11)),
          source_ip |-> << ByteAt(s, 12), ByteAt(s, 13), ByteAt(s, 14), ByteAt(s, 15) >>,
          destination_ip |-> << ByteAt(s, 16), ByteAt(s, 17), ByteAt(s, 18), ByteAt(s, 19) >>]

\* ------------------------------------------------------------------------
\* util.rs: the Internet checksum

\* The big-endian word i of data (u16::from_be of the native word).
WordAt(data, i) == BE16(data[2 * i + 1], data[2 * i + 2])

\* while i < hi { sum += word i; i += 1 }, from i = lo
RECURSIVE SumWords(_, _, _)
SumWords(data, lo, hi) ==
    IF lo >= hi THEN 0 ELSE WordAt(data, lo) + SumWords(data, lo + 1, hi)

\* sum_be_words with the word at skipword summed like the others.
sum_be_words_NoSkip(data, skipword) ==
    IF Len(data) = 0 THEN 0
    ELSE SumWords(data, 0, Len(data) \div 2)
         + (IF Len(data) % 2 # 0 THEN data[Len(data)] * 256 ELSE 0)

\* sum_be_words(data, skipword).  The u32 accumulator cannot overflow below
\* 65537 words.
sum_be_words(data, skipword) ==
    IF Len(data) = 0 THEN 0
    ELSE LET len == Len(data)
             wlen == len \div 2
             skip == Min(skipword, wlen)
         IN  SumWords(data, 0, skip)
             + SumWords(data, skip + 1, wlen)
             + (IF len % 2 # 0 THEN data[len] * 256 ELSE 0)

\* while sum >> 16 != 0 { sum = (sum >> 16) + (sum & 0xFFFF) }
RECURSIVE FoldCarries(_)
FoldCarries(sum) ==
    IF sum \div U16 # 0 THEN FoldCarries((sum \div U16) + (sum % U16)) ELSE sum

\* get_checksum(data, location): !sum as u16
get_checksum(data, location) ==
    (U16 - 1) - (FoldCarries(sum_be_words(data, location)) % U16)

\* set_checksum(data, location): the buffer afterwards, and whether an index
\* was out of bounds (a panic; the first store is done before the second is
\* tried).
set_checksum(data, location) ==
    LET sum == get_checksum(data, location)
        i0 == location * 2
        i1 == location * 2 + 1
    IN  IF i0 >= Len(data) THEN [data |-> data, panicked |-> TRUE]
        ELSE IF i1 >= Len(data)
             THEN [data |-> [data EXCEPT ![i0 + 1] = HiByte(sum)], panicked |-> TRUE]
             ELSE [data |-> [data EXCEPT ![i0 + 1] = HiByte(sum), ![i1 + 1] = LoByte(sum)],
                   panicked |-> FALSE]

\* ------------------------------------------------------------------------
\* State

VARIABLES
    family,            \* "v4" | "v6": self.address.is_ipv6()
    session,           \* Pinger.session
    sequence,          \* Pinger.sequence
    payload,           \* the bytes the last ping handed to send_to
    ping_calls,        \* the number of Pinger::ping calls made so far
    ping_ret,          \* what the last Pinger::ping call returned
    pc,                \* where the main thread is
    running,           \* the AtomicBool the Ctrl-C handler clears
    pending,           \* a SIGINT was delivered and its handler has not run yet
    sigs,              \* the number of SIGINTs delivered so far
    lost_count,        \* main's lost_count
    sent_count,        \* main's sent_count
    sequence_num,      \* main's sequence_num, receive_pong's parameter
    now,               \* Instant::now()
    begin_time,        \* receive_pong's begin_time
    end_time,          \* receive_pong's end_time
    relative_timeout,  \* the duration the socket's read timeout was last set to
    armed_at,          \* the instant it was set at
    bytes,             \* the length recv_from returned last ({} before any)
    header,            \* receive_pong's header (GenericIPHeader) of the last datagram
    icmp_packet,       \* receive_pong's icmp_packet of the last datagram
    accepted,          \* the last datagram reached the construction of the PongResult
    pong,              \* what the last receive_pong call returned
    cs_data,           \* the checksum harness's buffer
    cs_loc,            \* the checksum harness's location
    cs_out,            \* what set_checksum left: the buffer, and whether it panicked
    socket_ttl,        \* the TTL option of the socket ({} while it was never set)
    recv_calls,        \* the number of receive_pong calls made so far
    codec_in,          \* the codec harness's ICMPEchoPacket
    codec_bytes,       \* what serializing it gave
    codec_out          \* what deserializing those bytes gave

vars == << family, session, sequence, payload, ping_calls, ping_ret, pc, running,
           pending, sigs, lost_count, sent_count, sequence_num, now, begin_time,
           end_time, relative_timeout, armed_at, bytes, header, icmp_packet,
           accepted, pong, cs_data, cs_loc, cs_out, socket_ttl, recv_calls,
           codec_in, codec_bytes, codec_out >>

pingerVars == << family, session, sequence, payload, ping_calls, ping_ret, socket_ttl >>
driverVars == << running, pending, sigs, lost_count, sent_count, sequence_num,
                 recv_calls >>
clockVars == << now, begin_time, end_time, relative_timeout, armed_at >>
packetVars == << bytes, header, icmp_packet, accepted >>
harnessVars == << cs_data, cs_loc, cs_out, codec_in, codec_bytes, codec_out >>

NoHeader == [ok |-> FALSE]
NoPacket == [ok |-> FALSE]
NoPong == [kind |-> "None", err |-> "", sequence |-> 0, ttl |-> {}, size |-> 0,
           rtt |-> 0, mtype |-> ""]
ErrPong(e) == [NoPong EXCEPT !.kind = "Err", !.err = e]
NoRet == [kind |-> "None", n |-> 0]

\* The state after Pinger::new(address) and main's setup, at location at.
InitAt(at) ==
    /\ family \in {"v4", "v6"}
    /\ session \in SessionIds
    /\ sequence = 0
    /\ payload = << >>
    /\ ping_calls = 0
    /\ ping_ret = NoRet
    /\ pc = at
    /\ running = TRUE
    /\ pending = FALSE
    /\ sigs = 0
    /\ lost_count = 0
    /\ sent_count = 0
    /\ sequence_num = 0
    /\ now = 0
    /\ begin_time = 0
    /\ end_time = 0
    /\ relative_timeout = 0
    /\ armed_at = 0
    /\ bytes = {}
    /\ header = NoHeader
    /\ icmp_packet = NoPacket
    /\ accepted = FALSE
    /\ pong = NoPong
    /\ cs_out = [data |-> << >>, panicked |-> FALSE]
    /\ socket_ttl = {}
    /\ recv_calls = 0
    /\ codec_bytes = << >>
    /\ codec_out = NoPacket

\* An ICMPEchoPacket no harness uses.
ZeroPacket == [message_type |-> 0, message_code |-> 0, checksum |-> 0,
               identifier |-> 0, sequence_num |-> 0]

\* main before its setup of the pinger's ttl (lines 52-57).
Init == InitAt("setup") /\ cs_data = << >> /\ cs_loc = 0 /\ codec_in = ZeroPacket

\* ------------------------------------------------------------------------
\* Pinger::ping

\* The packet ping builds and serializes, with its checksum set.
PingPayload(seq) ==
    LET pack == [message_type |-> IF family = "v6" THEN ECHO_REQUEST_V6 ELSE ECHO_REQUEST_V4,
                 message_code |-> 0,
                 checksum |-> 0,
                 identifier |-> session,
                 sequence_num |-> seq]
    IN  set_checksum(SerializeICMP(pack), 1).data

\* One call of Pinger::ping.  self.sequence += 1 overflows at 65535: a build
\* with overflow checks (the debug profile) panics there, one without (the
\* release profile) wraps to 0.  send_ok is whether send_to succeeded.
PingCall(send_ok, overflow_checks) ==
    /\ ping_calls' = ping_calls + 1
    /\ IF sequence + 1 >= U16 /\ overflow_checks
       THEN /\ ping_ret' = [kind |-> "Panic", n |-> 0]
            /\ UNCHANGED << sequence, payload >>
       ELSE /\ sequence' = (sequence + 1) % U16
            /\ payload' = PingPayload(sequence')
            /\ ping_ret' = IF send_ok THEN [kind |-> "Ok", n |-> sequence']
                                      ELSE [kind |-> "Err", n |-> 0]
    /\ UNCHANGED << family, session, socket_ttl >>

\* A main that sleeps after a successful ping without calling receive_pong.
MainPing_NoReceive ==
    /\ pc = "ping"
    /\ ping_calls < MaxPings
    /\ \E send_ok \in BOOLEAN, overflow_checks \in BOOLEAN :
           PingCall(send_ok, overflow_checks)
    /\ pc' = IF ping_ret'.kind = "Panic" THEN "panic" ELSE "sleep"
    /\ sequence_num' = IF ping_ret'.kind = "Ok" THEN ping_ret'.n ELSE sequence_num
    /\ sent_count' = IF ping_ret'.kind = "Ok" THEN sent_count + 1 ELSE sent_count
    /\ UNCHANGED << running, pending, sigs, lost_count, recv_calls >>
    /\ UNCHANGED << clockVars, packetVars, pong, harnessVars >>

\* main, lines 75-84: the ping of a cycle, the sleep-and-continue of a failed
\* send, sent_count += 1 after a successful one.
MainPing ==
    /\ pc = "ping"
    /\ ping_calls < MaxPings
    /\ \E send_ok \in BOOLEAN, overflow_checks \in BOOLEAN :
           PingCall(send_ok, overflow_checks)
    /\ pc' = CASE ping_ret'.kind = "Ok" -> "receive_pong"
               [] ping_ret'.kind = "Err" -> "sleep"
               [] OTHER -> "panic"
    /\ sequence_num' = IF ping_ret'.kind = "Ok" THEN ping_ret'.n ELSE sequence_num
    /\ sent_count' = IF ping_ret'.kind = "Ok" THEN sent_count + 1 ELSE sent_count
    /\ UNCHANGED << running, pending, sigs, lost_count, recv_calls >>
    /\ UNCHANGED << clockVars, packetVars, pong, harnessVars >>

\* A caller that only calls ping, again and again, on one Pinger.
SeqPing ==
    /\ pc = "seq"
    /\ ping_calls < SeqCalls
    /\ \E send_ok \in BOOLEAN, overflow_checks \in BOOLEAN :
           PingCall(send_ok, overflow_checks)
    /\ pc' = IF ping_ret'.kind = "Panic" THEN "panic" ELSE "seq"
    /\ UNCHANGED << driverVars, clockVars, packetVars, pong, harnessVars >>

\* ------------------------------------------------------------------------
\* The datagrams the network may deliver to the socket

Zeros(n) == [i \in 1..n |-> 0]
Truncate(d, n) == SubSeq(d, 1, Min(Len(d), n))

\* An ICMP message of 8 bytes (its checksum is not validated on receipt).
ICMPBytes(type, code, id, seq) ==
    SerializeICMP([message_type |-> type, message_code |-> code, checksum |-> 0,
                   identifier |-> id, sequence_num |-> seq])

\* An IPv4 datagram as a raw ICMPv4 socket delivers it: the IPv4 header of
\* 4 * IHL bytes (at least the 20 fixed ones), then the ICMP message.
IPv4Datagram(vhl, total_length, ttl, type, code, id, seq) ==
    << vhl, 0, HiByte(total_length), LoByte(total_length), 0, 0, 0, 0,
       ttl, 1, 0, 0, 127, 0, 0, 1, 127, 0, 0, 1 >>
    \o Zeros(IF 4 * (vhl % 16) > IPv4HeaderSize THEN 4 * (vhl % 16) - IPv4HeaderSize ELSE 0)
    \o ICMPBytes(type, code, id, seq)

VhlVals == {69, 70}
TotalLengthVals == {28, 8}
TtlVals == {64}
\* Echo reply, time exceeded, destination unreachable and echo request of
\* ICMPv4; echo reply, time exceeded, echo request of ICMPv6 and type 0.
TypeValsV4 == {ECHO_REPLY_V4, TIMEOUT_V4, 3, ECHO_REQUEST_V4}
TypeValsV6 == {ECHO_REPLY_V6, TIMEOUT_V6, ECHO_REQUEST_V6, 0}
CodeVals == {0, 1}
IdVals == SessionIds
SeqVals == 1..MaxPings
\* The lengths a datagram may be cut to (BufLen cuts nothing).
CutVals == {BufLen, 21, 1}

DatagramsV6 ==
    { Truncate(ICMPBytes(t, c, id, sq), n) :
          t \in TypeValsV6, c \in CodeVals, id \in IdVals, sq \in SeqVals, n \in CutVals }
DatagramsV4 ==
    { Truncate(IPv4Datagram(vhl, tl, ttl, t, c, id, sq), n) :
          vhl \in VhlVals, tl \in TotalLengthVals, ttl \in TtlVals,
          t \in TypeValsV4, c \in CodeVals, id \in IdVals, sq \in SeqVals,
          n \in CutVals }
Datagrams(fam) == IF fam = "v6" THEN DatagramsV6 ELSE DatagramsV4

\* ------------------------------------------------------------------------
\* Pinger::receive_pong

\* Lines 103-128: the GenericIPHeader of the buffer.
DecodeHeader(buf) ==
    IF family = "v6"
    THEN [ok |-> TRUE, datagram_length |-> 8, data_offset |-> 0, ttl |-> {}]
    ELSE LET ip_packet == DeserializeIPv4(buf)
         IN  IF ~ip_packet.ok THEN [ok |-> FALSE]
             ELSE [ok |-> TRUE,
                   datagram_length |-> ip_packet.datagram_length,
                   data_offset |-> 4 * (ip_packet.version_and_header_len % 16),
                   ttl |-> {ip_packet.ttl}]

\* Classify with the ICMPv4 types taken for both families.
Classify_V4Only(fam, message_type) ==
    IF message_type = ECHO_REPLY_V4 THEN "Reply"
    ELSE IF message_type = TIMEOUT_V4 THEN "TimeLimitExceeded"
    ELSE "continue"

\* Lines 140-149: the ReplyType of a message type, or "continue".
Classify(fam, message_type) ==
    IF fam = "v6"
    THEN IF message_type = ECHO_REPLY_V6 THEN "Reply"
         ELSE IF message_type = TIMEOUT_V6 THEN "TimeLimitExceeded"
         ELSE "continue"
    ELSE IF message_type = ECHO_REPLY_V4 THEN "Reply"
         ELSE IF message_type = TIMEOUT_V4 THEN "TimeLimitExceeded"
         ELSE "continue"

\* A filter that compares the identifier only.
Matches_IdOnly(mtype, icmp, sess, seq_num) ==
    mtype = "Reply" => icmp.identifier = sess

\* Lines 151-155: whether a classified packet passes the filter.
Matches(mtype, icmp, sess, seq_num) ==
    mtype = "Reply" => (icmp.identifier = sess /\ icmp.sequence_num = seq_num)

\* Line 164: header.datagram_length - header.data_offset as u16.  The u16
\* subtraction underflows when the length is below the offset: a build with
\* overflow checks panics, one without wraps.
PongSize(hdr, overflow_checks) ==
    IF hdr.datagram_length - hdr.data_offset < 0
    THEN [panic |-> overflow_checks,
          size |-> hdr.datagram_length - hdr.data_offset + U16]
    ELSE [panic |-> FALSE, size |-> hdr.datagram_length - hdr.data_offset]

\* Lines 92-94: entering receive_pong(sequence_num, timeout).
ReceivePongEnter ==
    /\ pc = "receive_pong"
    /\ begin_time' = now
    /\ end_time' = now + TimeoutTicks
    /\ pc' = "loop"
    /\ bytes' = {}
    /\ header' = NoHeader
    /\ icmp_packet' = NoPacket
    /\ accepted' = FALSE
    /\ pong' = NoPong
    /\ UNCHANGED << now, relative_timeout, armed_at >>
    /\ recv_calls' = recv_calls + 1
    /\ UNCHANGED << running, pending, sigs, lost_count, sent_count, sequence_num >>
    /\ UNCHANGED << pingerVars, harnessVars >>

\* Line 97: end_time.duration_since(Instant::now()).  When now is later than
\* end_time, the standard library of the time panics (saturating FALSE) and
\* a later one gives zero.
DurationSince(later, earlier, saturating) ==
    IF earlier > later
    THEN [panic |-> ~saturating, d |-> 0]
    ELSE [panic |-> FALSE, d |-> later - earlier]

\* Lines 96-101, up to the blocking recv_from: the remaining time is computed
\* and the read timeout set to it.  socket2's set_read_timeout refuses a zero
\* duration with InvalidInput (a zero timeval would mean no timeout); setsockopt
\* may fail for its own reasons (os_ok).
LoopTop ==
    /\ pc = "loop"
    /\ \E saturating \in BOOLEAN, os_ok \in BOOLEAN :
         LET rel == DurationSince(end_time, now, saturating)
         IN  IF rel.panic
             THEN /\ pc' = "panic"
                  /\ UNCHANGED << relative_timeout, armed_at, pong >>
             ELSE IF rel.d = 0 \/ ~os_ok
             THEN /\ pc' = "returned"
                  /\ pong' = ErrPong(IF rel.d = 0 THEN "InvalidInput" ELSE "Other")
                  /\ UNCHANGED << relative_timeout, armed_at >>
             ELSE /\ pc' = "recv_from"
                  /\ relative_timeout' = rel.d
                  /\ armed_at' = now
                  /\ UNCHANGED pong
    /\ bytes' = {}
    /\ header' = NoHeader
    /\ icmp_packet' = NoPacket
    /\ accepted' = FALSE
    /\ UNCHANGED << now, begin_time, end_time >>
    /\ UNCHANGED << pingerVars, driverVars, harnessVars >>

\* Lines 101-168: recv_from returns the datagram d, which is decoded,
\* classified and matched; it is dropped (continue) or ends the call.
RecvDatagram(d) ==
    /\ pc = "recv_from"
    /\ now < armed_at + relative_timeout
    /\ bytes' = {Min(Len(d), BufLen)}
    /\ LET buf == RecvBuf(d)
           hdr == DecodeHeader(buf)
           icmp == IF hdr.ok THEN DeserializeICMP(SliceFrom(buf, hdr.data_offset))
                   ELSE NoPacket
           mtype == Classify(family, icmp.message_type)
       IN  /\ header' = hdr
           /\ icmp_packet' = icmp
           /\ IF ~hdr.ok \/ ~icmp.ok
              THEN /\ pong' = ErrPong("InvalidData")
                   /\ accepted' = FALSE
                   /\ pc' = "returned"
              ELSE IF mtype = "continue" \/ ~Matches(mtype, icmp, session, sequence_num)
              THEN /\ pc' = "loop"
                   /\ accepted' = FALSE
                   /\ UNCHANGED pong
              ELSE /\ accepted' = TRUE
                   /\ \E overflow_checks \in BOOLEAN :
                        LET sz == PongSize(hdr, overflow_checks)
                        IN  IF sz.panic
                            THEN pc' = "panic" /\ UNCHANGED pong
                            ELSE /\ pc' = "returned"
                                 /\ pong' = [kind |-> "Ok", err |-> "",
                                             sequence |-> icmp.sequence_num,
                                             ttl |-> hdr.ttl,
                                             size |-> sz.size,
                                             rtt |-> now - begin_time,
                                             mtype |-> mtype]
    /\ UNCHANGED << pingerVars, driverVars, clockVars, harnessVars >>

\* Line 101: recv_from returns one of the datagrams the network may deliver.
Recv == \E d \in Datagrams(family) : RecvDatagram(d)

\* Line 101: the read timeout expires, recv_from fails with WouldBlock.
RecvWouldBlock ==
    /\ pc = "recv_from"
    /\ now >= armed_at + relative_timeout
    /\ pong' = ErrPong("WouldBlock")
    /\ pc' = "returned"
    /\ UNCHANGED << pingerVars, driverVars, clockVars, packetVars, harnessVars >>

\* Line 101: recv_from fails with another error of the operating system.
RecvError ==
    /\ pc = "recv_from"
    /\ pong' = ErrPong("Other")
    /\ pc' = "returned"
    /\ UNCHANGED << pingerVars, driverVars, clockVars, packetVars, harnessVars >>

\* Time passes while receive_pong runs (elsewhere it is not observed).
Tick ==
    /\ pc \in {"loop", "recv_from"}
    /\ now < end_time + MaxLate
    /\ now' = now + 1
    /\ UNCHANGED << begin_time, end_time, relative_timeout, armed_at >>
    /\ UNCHANGED << pingerVars, pc, driverVars, packetVars, pong, harnessVars >>

\* ------------------------------------------------------------------------
\* main

\* The values of -t followed.
TtlArgs == {1}

\* A set_ttl that also starts the sequence counter from the ttl.
SetTtl_MovesSequence(ttl, ok) ==
    /\ socket_ttl' = IF ok THEN {ttl} ELSE socket_ttl
    /\ sequence' = ttl
    /\ UNCHANGED << family, session, payload, ping_calls, ping_ret >>

\* Pinger::set_ttl(ttl): self.socket.set_ttl(ttl), which may fail (ok).
SetTtl(ttl, ok) ==
    /\ socket_ttl' = IF ok THEN {ttl} ELSE socket_ttl
    /\ UNCHANGED << family, session, sequence, payload, ping_calls, ping_ret >>

\* Lines 52-57: without -t nothing is set; with it set_ttl is called, and
\* its failure ends the process (expect) before the loop.
MainSetup ==
    /\ pc = "setup"
    /\ \E given \in BOOLEAN, ttl \in TtlArgs, ok \in BOOLEAN :
         IF given
         THEN SetTtl(ttl, ok) /\ pc' = IF ok THEN "while" ELSE "failed"
         ELSE pc' = "while" /\ UNCHANGED pingerVars
    /\ UNCHANGED << driverVars, clockVars, packetVars, pong, harnessVars >>

\* Line 74: while running.load(); lines 156-160 after the loop.
MainWhile ==
    /\ pc = "while"
    /\ pc' = IF running THEN "ping" ELSE "done"
    /\ UNCHANGED << pingerVars, driverVars, clockVars, packetVars, pong, harnessVars >>

\* A match that counts a failed receive twice.
MainMatch_LostTwice ==
    /\ pc = "returned"
    /\ IF pong.kind = "Err"
       THEN /\ lost_count' = lost_count + 2
            /\ pc' = IF pong.err = "Interrupted" THEN "while" ELSE "sleep"
       ELSE /\ lost_count' = IF pong.mtype = "TimeLimitExceeded" THEN lost_count + 1
                             ELSE lost_count
            /\ pc' = "sleep"
    /\ bytes' = {}
    /\ header' = NoHeader
    /\ icmp_packet' = NoPacket
    /\ accepted' = FALSE
    /\ pong' = NoPong
    /\ now' = 0
    /\ begin_time' = 0
    /\ end_time' = 0
    /\ relative_timeout' = 0
    /\ armed_at' = 0
    /\ UNCHANGED << running, pending, sigs, sent_count, sequence_num, recv_calls >>
    /\ UNCHANGED << pingerVars, harnessVars >>

\* Lines 86-153: what main does with the result of receive_pong; the result
\* and receive_pong's locals are dropped.  Instants are compared only within
\* one receive_pong call, so the origin of the clock is moved to the end of
\* the call.
MainMatch ==
    /\ pc = "returned"
    /\ IF pong.kind = "Err"
       THEN /\ lost_count' = lost_count + 1
            /\ pc' = IF pong.err = "Interrupted" THEN "while" ELSE "sleep"
       ELSE /\ lost_count' = IF pong.mtype = "TimeLimitExceeded" THEN lost_count + 1
                             ELSE lost_count
            /\ pc' = "sleep"
    /\ bytes' = {}
    /\ header' = NoHeader
    /\ icmp_packet' = NoPacket
    /\ accepted' = FALSE
    /\ pong' = NoPong
    /\ now' = 0
    /\ begin_time' = 0
    /\ end_time' = 0
    /\ relative_timeout' = 0
    /\ armed_at' = 0
    /\ UNCHANGED << running, pending, sigs, sent_count, sequence_num, recv_calls >>
    /\ UNCHANGED << pingerVars, harnessVars >>

\* thread::sleep(interval), then the next turn of the loop.
MainSleep ==
    /\ pc = "sleep"
    /\ pc' = "while"
    /\ UNCHANGED << pingerVars, driverVars, clockVars, packetVars, pong, harnessVars >>

\* A SIGINT is delivered.  When the main thread is blocked in recv_from with a
\* read timeout set, the call may fail with Interrupted (interrupts).
SigInt ==
    /\ pc \in {"while", "ping", "receive_pong", "loop", "recv_from", "returned", "sleep"}
    /\ sigs < MaxSignals
    /\ sigs' = sigs + 1
    /\ pending' = TRUE
    /\ \E interrupts \in BOOLEAN :
         IF interrupts /\ pc = "recv_from"
         THEN pong' = ErrPong("Interrupted") /\ pc' = "returned"
         ELSE UNCHANGED << pong, pc >>
    /\ UNCHANGED << running, lost_count, sent_count, sequence_num, recv_calls >>
    /\ UNCHANGED << pingerVars, clockVars, packetVars, harnessVars >>

\* Lines 64-66: the Ctrl-C handler, on its own thread.
CtrlCHandler ==
    /\ pending
    /\ pending' = FALSE
    /\ running' = FALSE
    /\ UNCHANGED << sigs, lost_count, sent_count, sequence_num, recv_calls >>
    /\ UNCHANGED << pingerVars, pc, clockVars, packetVars, pong, harnessVars >>

Next ==
    \/ MainSetup
    \/ MainWhile
    \/ MainPing
    \/ ReceivePongEnter
    \/ LoopTop
    \/ Recv
    \/ RecvWouldBlock
    \/ RecvError
    \/ Tick
    \/ MainMatch
    \/ MainSleep
    \/ SigInt
    \/ CtrlCHandler

Spec == Init /\ [][Next]_vars

SeqInit == InitAt("seq") /\ cs_data = << >> /\ cs_loc = 0 /\ codec_in = ZeroPacket
SeqNext == SeqPing
SpecSeq == SeqInit /\ [][SeqNext]_vars

\* ------------------------------------------------------------------------
\* A caller of set_checksum on arbitrary buffers

Buffers == UNION { [1..n -> ByteVals] : n \in 0..MaxBufLen }
Locations == 0..(MaxBufLen \div 2 + 1)

ChecksumInit ==
    /\ InitAt("checksum")
    /\ codec_in = ZeroPacket
    /\ cs_data \in Buffers
    /\ cs_loc \in Locations

\* util::set_checksum(cs_data, cs_loc)
ChecksumCall ==
    /\ pc = "checksum"
    /\ cs_out' = set_checksum(cs_data, cs_loc)
    /\ pc' = "checksum_done"
    /\ UNCHANGED << cs_data, cs_loc, codec_in, codec_bytes, codec_out >>
    /\ UNCHANGED << pingerVars, driverVars, clockVars, packetVars, pong >>

ChecksumNext == ChecksumCall
SpecChecksum == ChecksumInit /\ [][ChecksumNext]_vars

\* ------------------------------------------------------------------------
\* A caller of the coder alone: one packet is serialized and the bytes are
\* deserialized again.

U8Vals == {0, 8, 128, 255}
U16Vals == {0, 1, 4660, 65535}
Packets == [message_type : U8Vals, message_code : U8Vals, checksum : U16Vals,
            identifier : U16Vals, sequence_num : U16Vals]

CodecInit ==
    /\ InitAt("codec")
    /\ cs_data = << >>
    /\ cs_loc = 0
    /\ codec_in \in Packets

CodecCall ==
    /\ pc = "codec"
    /\ pc' = "codec_done"
    /\ codec_bytes' = SerializeICMP(codec_in)
    /\ codec_out' = DeserializeICMP(SliceOf(codec_bytes'))
    /\ UNCHANGED << codec_in, cs_data, cs_loc, cs_out >>
    /\ UNCHANGED << pingerVars, driverVars, clockVars, packetVars, pong >>

CodecNext == CodecCall

SpecCodec == CodecInit /\ [][CodecNext]_vars

\* ------------------------------------------------------------------------
\* Properties

\* receive_pong has ended by a panic (ping panics only on the overflow of
\* the sequence counter).
ReceivePanicked == pc = "panic" /\ ping_ret.kind # "Panic"

\* The last datagram received in this call was decoded.
Decoded == bytes # {} /\ header.ok /\ icmp_packet.ok

\* C1: a packet classified as Reply with another identifier or sequence is
\* dropped and the call goes on; one with the session identifier and the
\* expected sequence is returned at once, so a returned Reply carries the
\* expected sequence and the session identifier.
C1_MatchingFilter ==
    (Decoded /\ Classify(family, icmp_packet.message_type) = "Reply") =>
        IF icmp_packet.identifier = session /\ icmp_packet.sequence_num = sequence_num
        THEN /\ pc = "returned"
             /\ pong.kind = "Ok"
             /\ pong.mtype = "Reply"
             /\ pong.sequence = sequence_num
        ELSE pc = "loop" /\ pong = NoPong

\* C2: the N-th consecutive ping call returns N modulo 2^16: the counter
\* wraps after 65535 and the call does not fail there.
C2_SequenceWraps ==
    /\ ping_ret.kind # "Panic"
    /\ ping_ret.kind = "Ok" => ping_ret.n = ping_calls % U16

\* C3: the deadline is fixed at entry, every read timeout ends at or before
\* it, and a call in which no packet was accepted and recv_from met no
\* interrupt or operating-system error ends with a timeout (WouldBlock).
C3_OneDeadline ==
    /\ pc \in {"loop", "recv_from", "returned"} => end_time = begin_time + TimeoutTicks
    /\ pc = "recv_from" => armed_at + relative_timeout <= end_time
    /\ ~(ReceivePanicked /\ ~accepted)
    /\ (pc = "returned" /\ pong.kind = "Err" /\ pong.err \notin {"Interrupted", "Other"})
           => pong.err = "WouldBlock"

\* C4: a packet classified as TimeLimitExceeded is returned as a PongResult of
\* that kind, whatever its identifier and sequence.
C4_TimeExceededUnfiltered ==
    (Decoded /\ Classify(family, icmp_packet.message_type) = "TimeLimitExceeded") =>
        /\ pc = "returned"
        /\ pong.kind = "Ok"
        /\ pong.mtype = "TimeLimitExceeded"
        /\ pong.sequence = icmp_packet.sequence_num

\* C5: a receive_pong call ends by returning a PongResult (Reply or
\* TimeLimitExceeded) or one of the errors Timeout (WouldBlock), Interrupted,
\* TransportError (another error of the operating system) and MalformedPacket
\* (InvalidData); it never ends otherwise.
C5_ReturnsOneOutcome ==
    /\ ~ReceivePanicked
    /\ pc = "returned" =>
          \/ pong.kind = "Ok" /\ pong.mtype \in {"Reply", "TimeLimitExceeded"}
          \/ pong.kind = "Err"
               /\ pong.err \in {"WouldBlock", "Interrupted", "Other", "InvalidInput", "InvalidData"}

\* C6: an accepted IPv4 datagram gives a PongResult with the sequence read at
\* 4 * (version_and_ihl & 0x0F), the header's ttl and
\* size = total_length - 4 * (version_and_ihl & 0x0F).
C6_PongFields ==
    [][\A d \in Datagrams(family) :
          (RecvDatagram(d) /\ family = "v4" /\ accepted') =>
              LET buf == RecvBuf(d)
                  off == 4 * (ByteAt(buf, 0) % 16)
              IN  /\ pong'.kind = "Ok"
                  /\ pong'.sequence = BE16(ByteAt(buf, off + 6), ByteAt(buf, off + 7))
                  /\ pong'.ttl = {ByteAt(buf, 8)}
                  /\ pong'.size = BE16(ByteAt(buf, 2), ByteAt(buf, 3)) - off]_vars

\* The datagram received last is shorter than the structures decoded from it.
ShortDatagram ==
    /\ bytes # {}
    /\ \E n \in bytes :
         IF family = "v4"
         THEN n < IPv4HeaderSize \/ (header.ok /\ n < header.data_offset + ICMPEchoPacketSize)
         ELSE n < ICMPEchoPacketSize

\* C7: a datagram shorter than the IPv4 header, or than the ICMP header from
\* the payload offset, ends the call with MalformedPacket (InvalidData) and is
\* never classified, matched or returned.
C7_ShortIsMalformed ==
    ShortDatagram =>
        /\ pc = "returned"
        /\ pong.kind = "Err"
        /\ pong.err = "InvalidData"
        /\ ~accepted

\* C8: the size of an accepted packet is computed without underflow, whatever
\* total_length and version_and_ihl are: no panic, and the size is the
\* difference.
C8_SizeNoUnderflow ==
    accepted =>
        /\ pc = "returned"
        /\ pong.size = header.datagram_length - header.data_offset
        /\ pong.size >= 0

\* The sum of all the 16-bit big-endian words of data, the last byte of an
\* odd-length buffer padded with a zero byte, with the carries folded.
VerifySum(data) ==
    FoldCarries(SumWords(data, 0, Len(data) \div 2)
                + (IF Len(data) % 2 # 0 THEN data[Len(data)] * 256 ELSE 0))

\* C9: after set_checksum wrote the checksum into word k, the folded sum of
\* all the words of the buffer is 0xFFFF.
C9_ChecksumVerifies ==
    (pc = "checksum_done" /\ ~cs_out.panicked) => VerifySum(cs_out.data) = U16 - 1

\* C9's case: an odd-length buffer, a skipped word after the first, and a
\* sum that needed folding.
C9_Witness ==
    /\ pc = "checksum_done"
    /\ ~cs_out.panicked
    /\ Len(cs_data) % 2 = 1
    /\ cs_loc > 0
    /\ sum_be_words(cs_data, cs_loc) >= U16
    /\ cs_out.data # cs_data

\* The message type the family takes for an echo reply, and for time exceeded.
ReplyTypeOf(fam) == IF fam = "v6" THEN 129 ELSE 0
TimeExceededTypeOf(fam) == IF fam = "v6" THEN 3 ELSE 11

\* C10: the family and the ICMP type alone classify a packet: 129 (v6) and 0
\* (v4) are Reply, 3 (v6) and 11 (v4) are TimeLimitExceeded; a packet of any
\* other type is dropped, the call goes on under the same deadline, and the
\* packet is not returned.
C10_Classification ==
    Decoded =>
        LET t == icmp_packet.message_type
        IN  /\ (t # ReplyTypeOf(family) /\ t # TimeExceededTypeOf(family)) =>
                   /\ pc = "loop"
                   /\ ~accepted
                   /\ pong = NoPong
                   /\ end_time = begin_time + TimeoutTicks
            /\ accepted =>
                   /\ t = ReplyTypeOf(family) \/ t = TimeExceededTypeOf(family)
                   /\ Classify(family, t) =
                         (IF t = ReplyTypeOf(family) THEN "Reply" ELSE "TimeLimitExceeded")
            /\ (pc = "returned" /\ pong.kind = "Ok") =>
                   pong.mtype = (IF t = ReplyTypeOf(family) THEN "Reply" ELSE "TimeLimitExceeded")
            /\ (t = TimeExceededTypeOf(family)) => accepted
            /\ (t = ReplyTypeOf(family) /\ icmp_packet.identifier = session
                   /\ icmp_packet.sequence_num = sequence_num) => accepted

\* C10's cases: type 3 is dropped on IPv4 and accepted on IPv6; type 0 is
\* dropped on IPv6.
C10_Witness ==
    /\ Decoded
    /\ family = "v4"
    /\ icmp_packet.message_type = 3
    /\ pc = "loop"
    /\ now > begin_time

\* C11: a cycle whose ping failed (main goes from the ping to the sleep) is
\* counted as lost, and so is a cycle whose receive_pong returned a transport
\* error; in both the loop goes on with the sleep of the cycle.
C11_TransportErrorCounted ==
    [][ /\ (pc = "ping" /\ pc' = "sleep") =>
               /\ ping_ret'.kind = "Err"
               /\ lost_count' = lost_count + 1
        /\ (pc = "returned" /\ pc' # pc /\ pong.kind = "Err"
                /\ pong.err \in {"Other", "InvalidInput"}) =>
               /\ lost_count' = lost_count + 1
               /\ pc' = "sleep" ]_vars

\* C12: an interrupted receive is counted as lost and main goes back to the
\* test of running without the sleep; once running is false main starts no
\* other ping than the one it was already at, and the process does not end
\* in a panic, which prints no statistics.
C12_Cancellation ==
    [][ /\ (pc = "returned" /\ pc' # pc /\ pong.kind = "Err"
                /\ pong.err = "Interrupted") =>
               /\ lost_count' = lost_count + 1
               /\ pc' = "while"
        /\ (~running /\ pc # "ping") => pc' # "ping"
        /\ (~running /\ pc = "while") => pc' \in {"while", "done"}
        /\ ~running => pc' # "panic" ]_vars

\* C13: serializing an ICMPEchoPacket gives 8 bytes laid out as type, code,
\* checksum high and low, identifier high and low, sequence high and low, and
\* deserializing them gives back the five fields unchanged.
C13_CodecRoundTrip ==
    pc = "codec_done" =>
        /\ Len(codec_bytes) = ICMPEchoPacketSize
        /\ codec_bytes = << codec_in.message_type, codec_in.message_code,
                            codec_in.checksum \div 256, codec_in.checksum % 256,
                            codec_in.identifier \div 256, codec_in.identifier % 256,
                            codec_in.sequence_num \div 256,
                            codec_in.sequence_num % 256 >>
        /\ codec_out.ok
        /\ codec_out.message_type = codec_in.message_type
        /\ codec_out.message_code = codec_in.message_code
        /\ codec_out.checksum = codec_in.checksum
        /\ codec_out.identifier = codec_in.identifier
        /\ codec_out.sequence_num = codec_in.sequence_num

\* C13's case: a packet whose 16-bit fields have different high and low
\* bytes went through the coder.
C13_Witness ==
    /\ pc = "codec_done"
    /\ codec_in.message_type = 128
    /\ codec_in.checksum = 1
    /\ codec_in.identifier = 4660
    /\ codec_in.sequence_num = 65535
    /\ codec_bytes[5] = 18
    /\ codec_bytes[6] = 52
    /\ codec_out.identifier = 4660

\* C14: set_checksum and get_checksum complete for every buffer and every
\* location, and with a location at or beyond the number of words of the
\* buffer get_checksum is the complement of the folded sum of all its words.
C14_NoErrorConditions ==
    pc = "checksum_done" =>
        /\ ~cs_out.panicked
        /\ cs_loc >= (Len(cs_data) + 1) \div 2 =>
               get_checksum(cs_data, cs_loc) = (U16 - 1) - VerifySum(cs_data)

\* C15: when no time is left at the top of the loop of receive_pong, the
\* step taken there does not panic and either arms a read timeout that has
\* already run out or returns the timeout error (WouldBlock).
C15_NoTimeLeft ==
    [][ (pc = "loop" /\ now >= end_time /\ pc' # pc) =>
            /\ pc' # "panic"
            /\ pc' = "returned" => (pong'.kind = "Err" /\ pong'.err = "WouldBlock")
            /\ pc' = "recv_from" => armed_at' + relative_timeout' <= now ]_vars

\* The echo request that the last ping call built, read back from its bytes.
LastRequest == DeserializeICMP(SliceOf(payload))

\* C16: a Reply that receive_pong returns carries the identifier and the
\* sequence of the request that the ping of this cycle sent; an echo reply
\* with the sequence of another request, such as the late reply to an earlier
\* one, is dropped and the call goes on without a result.
C16_NoStaleReply ==
    /\ (pc = "returned" /\ pong.kind = "Ok" /\ pong.mtype = "Reply") =>
           /\ ping_ret = [kind |-> "Ok", n |-> sequence_num]
           /\ LastRequest.sequence_num = sequence_num
           /\ LastRequest.identifier = session
           /\ icmp_packet.sequence_num = LastRequest.sequence_num
           /\ icmp_packet.identifier = LastRequest.identifier
           /\ pong.sequence = LastRequest.sequence_num
    /\ (Decoded /\ Classify(family, icmp_packet.message_type) = "Reply"
            /\ icmp_packet.sequence_num # sequence_num) =>
           /\ pc = "loop"
           /\ ~accepted
           /\ pong = NoPong

\* C16's case: the first cycle was lost, and the reply to its request, with
\* the session identifier and sequence 1, came while sequence 2 was awaited
\* and was dropped.
C16_Witness ==
    /\ Decoded
    /\ Classify(family, icmp_packet.message_type) = "Reply"
    /\ sent_count = 2
    /\ lost_count = 1
    /\ sequence_num = 2
    /\ icmp_packet.identifier = session
    /\ icmp_packet.sequence_num = 1
    /\ pc = "loop"

\* main is inside a receive_pong call.
AwaitingReply == pc \in {"loop", "recv_from", "returned"}

\* C17: receive_pong is called once after each successful ping and before
\* the next ping, with the sequence that ping returned, and is not called
\* after a failed ping: the calls made are as many as the successful pings,
\* less the one about to be made when ping has just returned.
C17_Serialized ==
    /\ pc = "receive_pong" =>
           /\ recv_calls + 1 = sent_count
           /\ ping_ret = [kind |-> "Ok", n |-> sequence_num]
    /\ AwaitingReply =>
           /\ recv_calls = sent_count
           /\ ping_ret = [kind |-> "Ok", n |-> sequence_num]
           /\ sequence_num = sequence
    /\ pc \notin {"receive_pong"} => recv_calls = sent_count
    /\ (pc = "sleep" /\ ping_ret.kind = "Err") => pong = NoPong

\* C17's case: the first ping failed and no receive_pong was called for it;
\* the second returned 2 and receive_pong awaits 2.
C17_Witness ==
    /\ pc = "recv_from"
    /\ ping_calls = 2
    /\ sent_count = 1
    /\ recv_calls = 1
    /\ sequence_num = 2

\* C18: no step changes the session identifier or the address (of which the
\* model keeps the family), and a step that changes the sequence counter is
\* a ping call, which adds one to it: set_ttl and every step of receive_pong
\* leave the three unchanged.
C18_FrameEffect ==
    [][ /\ session' = session
        /\ family' = family
        /\ sequence' # sequence =>
               /\ pc = "ping"
               /\ ping_calls' = ping_calls + 1
               /\ sequence' = (sequence + 1) % U16 ]_vars

\* C18's case: set_ttl was called, and a receive_pong call that followed a
\* ping has returned an error.
C18_Witness ==
    /\ socket_ttl # {}
    /\ pc = "returned"
    /\ pong.kind = "Err"
    /\ sequence = 1
    /\ session = 7

\* C19: lost_count never exceeds sent_count; lost_count is at most the
\* number of receive_pong calls, which are made only after a successful
\* ping, and sent_count at most the number of ping calls; while the result
\* of a cycle is awaited its loss is not counted yet.
C19_LostAtMostSent ==
    /\ lost_count <= sent_count
    /\ lost_count <= recv_calls
    /\ recv_calls <= sent_count
    /\ sent_count <= ping_calls
    /\ (pc = "receive_pong" \/ AwaitingReply) => lost_count < sent_count
    /\ pc = "done" => sent_count - lost_count >= 0

\* C19's case: the first cycle was sent and lost, the ping of the second
\* failed and left both counters alone.
C19_Witness ==
    /\ pc = "sleep"
    /\ ping_calls = 2
    /\ ping_ret.kind = "Err"
    /\ sent_count = 1
    /\ lost_count = 1

\* C20: ping adds one to the counter before it sends, and keeps it when the
\* send fails: after every call, successful or failed, the counter is the
\* number of calls made modulo 2^16 and the request built carries it, so the
\* values returned by successful calls grow with the calls until the wrap.
C20_AdvancesBeforeSend ==
    /\ sequence = ping_calls % U16
    /\ ping_ret.kind = "Ok" => ping_ret.n = sequence
    /\ ping_ret.kind \in {"Ok", "Err"} => LastRequest.sequence_num = sequence

====
